---------------------------- MODULE Spec2Model ----------------------------
(***************************************************************************)
(* Pricing suggestion engine of room-bloom-ai.                             *)
(*                                                                         *)
(* Three variants of the same heuristic live in the repository:            *)
(*   - the current variant  (AIPricingSuggestions.tsx, lines 1-553),       *)
(*   - the AI-call variant  (AIPricingSuggestions.tsx, lines 555-1127),    *)
(*   - the third variant    (unnamed/part_007).                            *)
(*                                                                         *)
(* Prices are JavaScript Numbers (IEEE-754 doubles).  The model keeps a    *)
(* price as an integer count of half currency units (PriceScale = 2), so   *)
(* that 99.5 is the integer 199, and performs every multiplication and     *)
(* Math.round in binary64 arithmetic built from 14-bit limbs, because TLC  *)
(* integers are 32 bits wide.                                              *)
(***************************************************************************)
EXTENDS Integers, Sequences, FiniteSets, TLC

(***************************************************************************)
(* Natural numbers of arbitrary size: little-endian sequences of limbs.    *)
(***************************************************************************)
LimbBits == 14
LimbBase == 16384

RECURSIVE Pow2(_)
Pow2(n) == IF n = 0 THEN 1 ELSE 2 * Pow2(n - 1)

RECURSIVE BigTrim(_)
BigTrim(a) ==
  IF a = <<>> THEN <<>>
  ELSE IF a[Len(a)] = 0 THEN BigTrim(SubSeq(a, 1, Len(a) - 1))
  ELSE a

RECURSIVE BigFromInt(_)
BigFromInt(n) ==
  IF n = 0 THEN <<>> ELSE <<n % LimbBase>> \o BigFromInt(n \div LimbBase)

RECURSIVE BigToInt(_)
BigToInt(a) ==
  IF a = <<>> THEN 0 ELSE Head(a) + LimbBase * BigToInt(Tail(a))

RECURSIVE BigAddC(_, _, _)
BigAddC(a, b, c) ==
  IF a = <<>> /\ b = <<>> THEN BigFromInt(c)
  ELSE LET ha == IF a = <<>> THEN 0 ELSE Head(a)
           hb == IF b = <<>> THEN 0 ELSE Head(b)
           t == ha + hb + c
       IN  <<t % LimbBase>> \o
           BigAddC(IF a = <<>> THEN <<>> ELSE Tail(a),
                   IF b = <<>> THEN <<>> ELSE Tail(b), t \div LimbBase)

BigAdd(a, b) == BigTrim(BigAddC(a, b, 0))

RECURSIVE BigMulSmallC(_, _, _)
BigMulSmallC(a, k, c) ==
  IF a = <<>> THEN BigFromInt(c)
  ELSE LET t == Head(a) * k + c
       IN  <<t % LimbBase>> \o BigMulSmallC(Tail(a), k, t \div LimbBase)

BigMulSmall(a, k) == BigTrim(BigMulSmallC(a, k, 0))

RECURSIVE BigMul(_, _)
BigMul(a, b) ==
  IF b = <<>> \/ a = <<>> THEN <<>>
  ELSE BigAdd(BigMulSmall(a, Head(b)),
              IF Tail(b) = <<>> THEN <<>> ELSE <<0>> \o BigMul(a, Tail(b)))

RECURSIVE IntBitLen(_)
IntBitLen(n) == IF n = 0 THEN 0 ELSE 1 + IntBitLen(n \div 2)

BigBitLen(a) ==
  IF a = <<>> THEN 0 ELSE LimbBits * (Len(a) - 1) + IntBitLen(a[Len(a)])

\* a * 2^k
BigShl(a, k) ==
  IF a = <<>> THEN <<>>
  ELSE [i \in 1..(k \div LimbBits) |-> 0] \o BigMulSmall(a, Pow2(k % LimbBits))

\* floor(a / 2^k)
BigShr(a, k) ==
  LET d == k \div LimbBits
      r == k % LimbBits
      b == IF d >= Len(a) THEN <<>> ELSE SubSeq(a, d + 1, Len(a))
  IN  BigTrim([i \in 1..Len(b) |->
                 (b[i] \div Pow2(r)) +
                 (IF i < Len(b) THEN (b[i + 1] % Pow2(r)) * Pow2(LimbBits - r)
                  ELSE 0)])

\* a mod 2^k
BigLow(a, k) ==
  LET d == k \div LimbBits
      r == k % LimbBits
  IN  IF d >= Len(a) THEN a
      ELSE BigTrim(SubSeq(a, 1, d) \o <<a[d + 1] % Pow2(r)>>)

RECURSIVE BigCmp(_, _)
\* -1, 0, 1 as a < b, a = b, a > b (both trimmed)
BigCmp(a, b) ==
  IF Len(a) # Len(b) THEN (IF Len(a) < Len(b) THEN -1 ELSE 1)
  ELSE IF a = <<>> THEN 0
  ELSE IF a[Len(a)] # b[Len(b)] THEN (IF a[Len(a)] < b[Len(b)] THEN -1 ELSE 1)
  ELSE BigCmp(SubSeq(a, 1, Len(a) - 1), SubSeq(b, 1, Len(b) - 1))

BigIsOdd(a) == a # <<>> /\ a[1] % 2 = 1

\* floor(a / k) and a mod k for a small divisor k, most significant limb first
RECURSIVE BigDivSmallR(_, _, _)
BigDivSmallR(a, k, rem) ==
  IF a = <<>> THEN [q |-> <<>>, r |-> rem]
  ELSE LET t    == rem * LimbBase + a[Len(a)]
           rest == BigDivSmallR(SubSeq(a, 1, Len(a) - 1), k, t % k)
       IN  [q |-> rest.q \o <<t \div k>>, r |-> rest.r]

BigDivSmall(a, k) ==
  LET d == BigDivSmallR(a, k, 0) IN [q |-> BigTrim(d.q), r |-> d.r]

(***************************************************************************)
(* binary64.  A non-negative finite double is [m, e] with value m * 2^e,   *)
(* 2^52 <= m < 2^53, or Zero.  Rounding is round-to-nearest, ties-to-even. *)
(***************************************************************************)
MantBits == 53

DZero == [m |-> <<>>, e |-> 0]

\* round to nearest, ties to even: whether the quotient q of p by 2^s is
\* rounded up, r being the remainder and half = 2^(s-1)
RoundsUp(q, r, half, sticky) ==
  LET c == BigCmp(r, half)
  IN  c = 1 \/ (c = 0 /\ (sticky \/ BigIsOdd(q)))

\* the mantissa q2 after rounding, brought back to MantBits bits
Renormalise(q2, e) ==
  IF BigBitLen(q2) > MantBits
  THEN [m |-> BigShr(q2, 1), e |-> e + 1]
  ELSE [m |-> q2, e |-> e]

\* p of more than MantBits bits, s of which are dropped
RoundShifted(p, s, e, sticky) ==
  Renormalise(IF RoundsUp(BigShr(p, s), BigLow(p, s), BigShl(<<1>>, s - 1), sticky)
              THEN BigAdd(BigShr(p, s), <<1>>)
              ELSE BigShr(p, s),
              e + s)

\* p of n bits as a mantissa of MantBits bits
RoundBits(p, n, e, sticky) ==
  IF n = 0 THEN DZero
  ELSE IF n <= MantBits THEN [m |-> BigShl(p, MantBits - n), e |-> e - (MantBits - n)]
  ELSE RoundShifted(p, n - MantBits, e, sticky)

\* the double nearest to p * 2^e (sticky: a non-zero remainder lies below p)
RoundToDouble(p, e, sticky) == RoundBits(p, BigBitLen(p), e, sticky)

\* the double of the integer n scaled by 2^e (exact for the values used)
DoubleOf(n, e) == RoundToDouble(BigFromInt(n), e, FALSE)

\* x * y
FMul(u, v) ==
  IF u.m = <<>> \/ v.m = <<>> THEN DZero
  ELSE RoundToDouble(BigMul(u.m, v.m), u.e + v.e, FALSE)

\* the double nearest to a / b for small positive integers: the value of a
\* decimal literal such as 1.15 = 115/100, and of the quotient a / b
FDivInt(a, b) ==
  IF a = 0 THEN DZero
  ELSE LET d == BigDivSmall(BigShl(BigFromInt(a), 70), b)
       IN  RoundToDouble(d.q, -70, d.r # 0)

\* u < v, u = v, u > v as -1, 0, 1
FCmp(u, v) ==
  IF u.m = <<>> /\ v.m = <<>> THEN 0
  ELSE IF u.m = <<>> THEN -1
  ELSE IF v.m = <<>> THEN 1
  ELSE IF u.e # v.e THEN (IF u.e < v.e THEN -1 ELSE 1)
  ELSE BigCmp(u.m, v.m)

\* Math.round of a non-negative double: floor(x + 1/2), computed exactly
MathRound(u) ==
  IF u.m = <<>> THEN 0
  ELSE IF u.e >= 0 THEN BigToInt(BigShl(u.m, u.e))
  ELSE BigToInt(BigShr(BigAdd(u.m, BigShl(<<1>>, (-u.e) - 1)), -u.e))

\* -Math.round(-x) for a non-negative double x: a half goes towards zero,
\* since Math.round rounds halves towards +Infinity
MathRoundOfNegated(u) ==
  IF u.e < 0 /\ BigLow(BigAdd(u.m, BigShl(<<1>>, (-u.e) - 1)), -u.e) = <<>>
  THEN MathRound(u) - 1
  ELSE MathRound(u)


(***************************************************************************)
(* Calendar and clock.                                                     *)
(*                                                                         *)
(* An instant is a count of ticks since 2024-12-31T00:00Z, TicksPerDay     *)
(* ticks to a day; a calendar date is a day number, day 1 being 2025-01-01 *)
(* (a Wednesday).  Years have 365 days (2025-2027 have).  tz is the local  *)
(* offset from UTC in ticks; daylight-saving changes are not modelled.     *)
(***************************************************************************)
TicksPerDay == 2
DaysPerYear == 365
MonthLen == <<31, 28, 31, 30, 31, 30, 31, 31, 30, 31, 30, 31>>

RECURSIVE MonthDayFrom(_, _)
\* d: 0-based day of the year still to consume, m: 0-based month
MonthDayFrom(d, m) ==
  IF d < MonthLen[m + 1] THEN [month |-> m, day |-> d + 1]
  ELSE MonthDayFrom(d - MonthLen[m + 1], m + 1)

\* MonthDayFrom tabulated once for the days of a year
MonthDayTable == [d \in 0..(DaysPerYear - 1) |-> MonthDayFrom(d, 0)] @@ <<>>

\* Date.prototype.getMonth (0 = January) and getDate of a day number
getMonth(day) == MonthDayTable[(day - 1) % DaysPerYear].month
getDate(day) == MonthDayTable[(day - 1) % DaysPerYear].day
\* Date.prototype.getDay (0 = Sunday)
getDay(day) == (day + 2) % 7

\* the UTC calendar date of an instant: toISOString().split('T')[0]
UtcDay(t) == t \div TicksPerDay
\* the local calendar date of an instant
LocalDay(t, off) == (t + off) \div TicksPerDay
\* new Date('YYYY-MM-DD'): the instant of UTC midnight of that date
ParseIsoDate(day) == day * TicksPerDay


(***************************************************************************)
(* Prices and the Number literals of the rule engines.                     *)
(***************************************************************************)
PriceScale == 2

\* base prices of the model, in half units: 0.5, 1, 50, 99.5, 100
Prices == {1, 2, 100, 199, 200}

D_1_0  == DoubleOf(1, 0)
D_1_25 == DoubleOf(5, -2)
D_1_15 == FDivInt(115, 100)
D_0_9  == FDivInt(9, 10)
\* the summer factor taken for the holiday factor
D_1_1_AsHoliday == FDivInt(115, 100)
D_1_1  == FDivInt(11, 10)
D_0_95 == FDivInt(95, 100)

\* the double of a price held in half units
PriceToDouble(q) == DoubleOf(q, -1)
\* a base_price of null: the column is nullable (migration line 28)
NullPrice == -1000000
\* the number an arithmetic operator takes a price for: null counts as 0
ToNumber(q) == IF q = NullPrice THEN 0 ELSE q
\* Math.round(price * multiplier), as a price in half units
RoundedProduct(q, mult) ==
  IF ToNumber(q) >= 0
  THEN PriceScale * MathRound(FMul(PriceToDouble(ToNumber(q)), mult))
  ELSE -(PriceScale * MathRoundOfNegated(FMul(PriceToDouble(-q), mult)))

Includes(seq, e) == \E i \in 1..Len(seq) : seq[i] = e
Min(a, b) == IF a < b THEN a ELSE b
Max(a, b) == IF a > b THEN a ELSE b
Abs(a) == IF a < 0 THEN -a ELSE a

\* seq itself; TLC evaluates the elements once instead of at every use
Once(seq) == seq @@ <<>>

RECURSIVE Flatten(_)
\* the concatenation of a sequence of sequences
Flatten(ss) == IF ss = <<>> THEN <<>> ELSE Head(ss) \o Flatten(Tail(ss))

\* the elements of seq at the positions i for which keep[i] holds, in order
Filter(seq, keep) ==
  LET RECURSIVE From(_)
      From(i) == IF i > Len(seq) THEN <<>>
                 ELSE (IF keep[i] THEN <<seq[i]>> ELSE <<>>) \o From(i + 1)
  IN  From(1)

\* Array.prototype.slice(0, n)
Slice(seq, n) == SubSeq(seq, 1, Min(n, Len(seq)))

(***************************************************************************)
(* The prompt of the AI-call variant.  Only the text after "Base Price: $" *)
(* matters: the decimal digits before the point and whether ".5" follows.  *)
(***************************************************************************)
buildPricingPrompt(property) ==
  [intDigits |-> property.base_price \div PriceScale,
   fraction  |-> property.base_price % PriceScale]

\* prompt.match(/Base Price: \$(\d+)/) then parseInt: the digits before the point
extractBasePriceFromPrompt(prompt) == PriceScale * prompt.intDigits

\* every value basePrice can take in a rule engine
\* base prices the properties table does not rule out: 0, -100, null
DegeneratePrices == {0, -200, NullPrice}
PriceDomain == Prices \cup {extractBasePriceFromPrompt(buildPricingPrompt([base_price |-> q])) : q \in Prices}

(***************************************************************************)
(* Current variant: AIPricingService (AIPricingSuggestions.tsx 46-201).    *)
(* The reasoning text is not modelled; no decision depends on it.          *)
(***************************************************************************)
HorizonDays == 14

\* getNext14Days: reads[i] is the instant returned by the i-th new Date();
\* setDate keeps the local time of day, toISOString gives the UTC date
getNext14Days(reads) ==
  Once([i \in 1..HorizonDays |-> UtcDay(reads[i] + i * TicksPerDay)])

holidays ==
  { <<11, 25>>, <<0, 1>>, <<6, 4>>, <<11, 24>>, <<11, 31>>, <<9, 31>> }

\* isHoliday(dateObj): month and day of month are read in local time
isHoliday(localDay) == <<getMonth(localDay), getDate(localDay)>> \in holidays

\* the sum of line 151-157 without the clamp of line 159
calculateConfidence_NoClamp(factors, isWeekend, isHol) ==
  LET c1 == 75 + (IF isWeekend THEN 15 ELSE 0)
      c2 == c1 + (IF isHol THEN 10 ELSE 0)
      c3 == c2 + (IF Includes(factors, "seasonal") THEN 5 ELSE 0)
      c4 == c3 - (IF Includes(factors, "last_minute") THEN 10 ELSE 0)
  IN  c4 + (IF Len(factors) > 2 THEN 5 ELSE 0)

calculateConfidence(factors, isWeekend, isHol) ==
  LET c1 == 75 + (IF isWeekend THEN 15 ELSE 0)
      c2 == c1 + (IF isHol THEN 10 ELSE 0)
      c3 == c2 + (IF Includes(factors, "seasonal") THEN 5 ELSE 0)
      c4 == c3 - (IF Includes(factors, "last_minute") THEN 10 ELSE 0)
      c5 == c4 + (IF Len(factors) > 2 THEN 5 ELSE 0)
  IN  Min(95, Max(60, c5))

\* The rules of the forEach body (lines 59-108) for one date. Each rule
\* takes the multiplier, factors and impact the rules before it have left.
RulesStart == [multiplier |-> D_1_0, factors |-> <<"baseline">>, impact |-> "maintain"]

\* weekend premium (lines 64-70)
WeekendRule(acc, isWeekend) ==
  IF isWeekend
  THEN [multiplier |-> FMul(acc.multiplier, D_1_25),
        factors |-> <<"weekend", "demand">>, impact |-> "increase"]
  ELSE acc

\* holiday premium (lines 72-78)
HolidayRule(acc, isHol) ==
  IF isHol
  THEN [multiplier |-> FMul(acc.multiplier, D_1_15),
        factors |-> Append(acc.factors, "holiday"), impact |-> "increase"]
  ELSE acc

\* last-minute discount for non-peak days (lines 80-86)
LastMinuteRule(acc, isLastMinute, isWeekend, isHol) ==
  IF isLastMinute /\ ~isWeekend /\ ~isHol
  THEN [multiplier |-> FMul(acc.multiplier, D_0_9),
        factors |-> <<"last_minute", "occupancy">>, impact |-> "decrease"]
  ELSE acc

\* seasonal adjustment (lines 88-96)
SummerRule(acc, month) ==
  IF month >= 5 /\ month <= 8
  THEN [acc EXCEPT !.multiplier = FMul(acc.multiplier, D_1_1),
                   !.factors = Append(acc.factors, "seasonal")]
  ELSE acc

\* winter discount, except holidays (lines 98-106)
WinterRule(acc, month, isHol) ==
  IF (month >= 11 \/ month <= 2) /\ ~isHol
  THEN [multiplier |-> FMul(acc.multiplier, D_0_95),
        factors |-> Append(acc.factors, "seasonal"),
        impact |-> IF acc.impact = "maintain" THEN "decrease" ELSE acc.impact]
  ELSE acc

\* lines 108-118: the price and the confidence of what the rules have left
SmartOutcome(acc, basePrice, isWeekend, isHol) ==
  [multiplier |-> acc.multiplier, factors |-> acc.factors, impact |-> acc.impact,
   suggestedPrice |-> RoundedProduct(basePrice, acc.multiplier),
   confidence |-> calculateConfidence(acc.factors, isWeekend, isHol)]

SmartRules(basePrice, isWeekend, isHol, isLastMinute, month) ==
  SmartOutcome(
    WinterRule(
      SummerRule(
        LastMinuteRule(HolidayRule(WeekendRule(RulesStart, isWeekend), isHol),
                       isLastMinute, isWeekend, isHol),
        month),
      month, isHol),
    basePrice, isWeekend, isHol)

\* SmartRules tabulated once over its finite domain
SmartRulesTable ==
  [a \in (PriceDomain \cup DegeneratePrices) \X BOOLEAN \X BOOLEAN \X BOOLEAN \X (0..11) |->
     SmartRules(a[1], a[2], a[3], a[4], a[5])] @@ <<>>

\* the iteration for a date whose local fields are those of localDay, r
\* being the outcome of the rules
Iteration(basePrice, date, index, localDay, isWeekend, isHol, r) ==
  [date |-> date, index |-> index, localDay |-> localDay,
   isWeekend |-> isWeekend, isHoliday |-> isHol, month |-> getMonth(localDay),
   multiplier |-> r.multiplier, factors |-> r.factors, impact |-> r.impact,
   suggestedPrice |-> r.suggestedPrice, confidence |-> r.confidence,
   pushed |-> r.suggestedPrice # basePrice]

\* dayOfWeek === 5 || dayOfWeek === 6 (line 55)
IsWeekendDay(localDay) == getDay(localDay) = 5 \/ getDay(localDay) = 6

SmartLocal(basePrice, date, index, localDay) ==
  Iteration(basePrice, date, index, localDay,
            IsWeekendDay(localDay), isHoliday(localDay),
            SmartRulesTable[<<basePrice, IsWeekendDay(localDay), isHoliday(localDay),
                              index <= 2, getMonth(localDay)>>])

\* one iteration of dates.forEach((date, index) => ...), index 0-based:
\* the attributes of the date, the outcome of the rules, and whether the
\* suggestion is pushed
SmartDate(basePrice, date, index, off) ==
  SmartLocal(basePrice, date, index, LocalDay(ParseIsoDate(date), off))

\* generateSmartSuggestions(property): the 14 iterations of the loop
\* the loop without the test of line 110: every date is pushed
generateSmartSuggestions_NoGuard(property, reads, off) ==
  LET dates == getNext14Days(reads)
  IN  Once([i \in 1..HorizonDays |->
         [SmartDate(property.base_price, dates[i], i - 1, off) EXCEPT !.pushed = TRUE]])

generateSmartSuggestions(property, reads, off) ==
  LET dates == getNext14Days(reads)
  IN  Once([i \in 1..HorizonDays |->
              SmartDate(property.base_price, dates[i], i - 1, off)])

\* response.suggestions of the loop: the pushed entries, in date order
Pushed(iterations) ==
  Filter(iterations, [i \in 1..Len(iterations) |-> iterations[i].pushed])

\* lines 194-200 with the tests for 'seasonal' and 'holiday' exchanged
determineRuleType_HolidayFirst(factors) ==
  IF Includes(factors, "weekend") THEN "weekend"
  ELSE IF Includes(factors, "holiday") THEN "event"
  ELSE IF Includes(factors, "seasonal") THEN "seasonal"
  ELSE IF Includes(factors, "last_minute") THEN "demand"
  ELSE "occupancy"

determineRuleType(factors) ==
  IF Includes(factors, "weekend") THEN "weekend"
  ELSE IF Includes(factors, "seasonal") THEN "seasonal"
  ELSE IF Includes(factors, "holiday") THEN "event"
  ELSE IF Includes(factors, "last_minute") THEN "demand"
  ELSE "occupancy"

\* the object built by response.suggestions.map (lines 168-179)
MapSuggestion(property, s) ==
  [propertyId |-> property.id, date |-> s.date,
   currentPrice |-> property.base_price, suggestedPrice |-> s.suggestedPrice,
   confidence |-> s.confidence, factors |-> s.factors, impact |-> s.impact,
   ruleType |-> determineRuleType(s.factors)]

MapSuggestions(property, list) ==
  Once([i \in 1..Len(list) |-> MapSuggestion(property, list[i])])

\* the sort key of generatePricingSuggestions (lines 187-188):
\* Math.abs(suggestedPrice - currentPrice) * (confidence / 100)
ImpactScore(priceDelta, confidence) ==
  FMul(PriceToDouble(Abs(priceDelta)), FDivInt(confidence, 100))

\* ImpactScore tabulated once over the values the rule engine produces
ImpactScoreTable ==
  [a \in (0..200) \X {5 * k : k \in 10..23} |->
     ImpactScore(a[1], a[2])] @@ <<>>

ScoreOf(s) ==
  ImpactScoreTable[<<Abs(s.suggestedPrice - ToNumber(s.currentPrice)), s.confidence>>]

RECURSIVE InsertByImpact(_, _)
\* e placed behind every element that does not compare after it
InsertByImpact(sorted, e) ==
  IF sorted = <<>> THEN <<e>>
  ELSE IF FCmp(Head(sorted).score, e.score) >= 0
       THEN <<Head(sorted)>> \o InsertByImpact(Tail(sorted), e)
       ELSE <<e>> \o sorted

RECURSIVE SortFrom(_, _, _)
SortFrom(seq, i, sorted) ==
  IF i > Len(seq) THEN sorted
  ELSE SortFrom(seq, i + 1, InsertByImpact(sorted, seq[i]))

\* allSuggestions left in the order of the loops
SortByImpact_Unsorted(seq) == seq

\* allSuggestions.sort((a, b) => bImpact - aImpact): a stable sort, larger
\* scores first
SortByImpact(seq) ==
  LET scored == Once([i \in 1..Len(seq) |-> [item |-> seq[i], score |-> ScoreOf(seq[i])]])
      sorted == SortFrom(scored, 1, <<>>)
  IN  Once([i \in 1..Len(seq) |-> sorted[i].item])

MaxShown == 12

\* the instant the g-th new Date() of a run returns when the clock, at t0
\* when the run starts, advances by one tick after c reads
ReadAt(g, c, t0) == IF g <= c THEN t0 ELSE t0 + 1

ReadsOf(p, c, t0) ==
  Once([i \in 1..HorizonDays |-> ReadAt((p - 1) * HorizonDays + i, c, t0)])

\* lines 184-191: the service's return value
ServiceReturn(its, allSuggestions) ==
  [iterations |-> its, allSuggestions |-> allSuggestions,
   returned |-> Slice(SortByImpact(allSuggestions), MaxShown)]

\* lines 164-182: allSuggestions after the loop over the properties
ServiceCollect(props, its) ==
  ServiceReturn(its, Flatten(Once([p \in 1..Len(props) |->
                                     MapSuggestions(props[p], Pushed(its[p]))])))

\* AIPricingService.generatePricingSuggestions (lines 162-192)
ServiceCurrent(props, c, t0, off) ==
  ServiceCollect(props,
    Once([p \in 1..Len(props) |->
            generateSmartSuggestions(props[p], ReadsOf(p, c, t0), off)]))

(***************************************************************************)
(* AI-call variant: AIPricingService (AIPricingSuggestions.tsx 599-773).   *)
(***************************************************************************)
holidaysAI == { <<11, 25>>, <<0, 1>>, <<6, 4>> }

isHolidayAI(localDay) == <<getMonth(localDay), getDate(localDay)>> \in holidaysAI

calculateConfidenceAI(factors, isWeekend, isHol) ==
  LET c1 == 75 + (IF isWeekend THEN 15 ELSE 0)
      c2 == c1 + (IF isHol THEN 10 ELSE 0)
      c3 == c2 + (IF Includes(factors, "seasonal") THEN 5 ELSE 0)
      c4 == c3 - (IF Includes(factors, "last_minute") THEN 10 ELSE 0)
  IN  Min(95, Max(60, c4))

\* lines 670-680: the price and the confidence of what the rules have left
FallbackOutcome(acc, basePrice, isWeekend, isHol) ==
  [multiplier |-> acc.multiplier, factors |-> acc.factors, impact |-> acc.impact,
   suggestedPrice |-> RoundedProduct(basePrice, acc.multiplier),
   confidence |-> calculateConfidenceAI(acc.factors, isWeekend, isHol)]

\* the rules of the forEach body of generateSmartFallback (lines 631-670):
\* those of the current variant but the winter discount
FallbackRules(basePrice, isWeekend, isHol, isLastMinute, month) ==
  FallbackOutcome(
    SummerRule(
      LastMinuteRule(HolidayRule(WeekendRule(RulesStart, isWeekend), isHol),
                     isLastMinute, isWeekend, isHol),
      month),
    basePrice, isWeekend, isHol)

FallbackRulesTable ==
  [a \in PriceDomain \X BOOLEAN \X BOOLEAN \X BOOLEAN \X (0..11) |->
     FallbackRules(a[1], a[2], a[3], a[4], a[5])] @@ <<>>

FallbackLocal(basePrice, date, index, localDay) ==
  Iteration(basePrice, date, index, localDay,
            IsWeekendDay(localDay), isHolidayAI(localDay),
            FallbackRulesTable[<<basePrice, IsWeekendDay(localDay), isHolidayAI(localDay),
                                 index <= 2, getMonth(localDay)>>])

FallbackDate(basePrice, date, index, off) ==
  FallbackLocal(basePrice, date, index, LocalDay(ParseIsoDate(date), off))

\* generateSmartFallback(prompt): the 14 iterations of the loop
generateSmartFallback(prompt, reads, off) ==
  LET dates == getNext14Days(reads)
      basePrice == extractBasePriceFromPrompt(prompt)
  IN  Once([i \in 1..HorizonDays |-> FallbackDate(basePrice, dates[i], i - 1, off)])

\* What one POST to /api/ai-pricing can come to (callAI, lines 600-617, and
\* the use of its result in lines 732-743):
\*   network_error       fetch rejects
\*   http_error          response.ok is false
\*   not_json            response.json() rejects
\*   json_null           the body is the JSON value null
\*   json_no_suggestions the body has no (or a null) suggestions member
\*   json_not_array      suggestions is neither nullish nor an array
\*   json_bad_element    suggestions is an array with an element that is
\*                       null or has no factors array
\*   json_ok             suggestions is an array of objects with factors
CallFailures == {"network_error", "http_error", "not_json"}
BadShapes == {"json_null", "json_no_suggestions", "json_not_array", "json_bad_element"}
ThrowingShapes == {"json_null", "json_not_array", "json_bad_element"}

\* the suggestion lists a well-shaped response may carry for a property:
\* whatever the generative model wrote (api/ai-pricing.js line 22)
AiLists(property) ==
  { << [date |-> 1, suggestedPrice |-> property.base_price, confidence |-> 80,
        factors |-> <<"demand">>, impact |-> "maintain"] >>,
    << [date |-> 1, suggestedPrice |-> property.base_price + 20 * PriceScale,
        confidence |-> 100, factors |-> <<"weekend">>, impact |-> "increase"] >>,
    << [date |-> 1, suggestedPrice |-> property.base_price + 20 * PriceScale,
        confidence |-> 80, factors |-> <<"weekend">>, impact |-> "increase"] >> }

AiResponses(property) ==
  { [kind |-> k, suggestions |-> <<>>] : k \in CallFailures \cup BadShapes }
    \cup { [kind |-> "json_ok", suggestions |-> l] : l \in AiLists(property) }

MaxShownAI == 10

(***************************************************************************)
(* Third variant: generatePricingSuggestions of unnamed/part_007 (74-160). *)
(***************************************************************************)
MaxShownThird == 10

\* The rules of lines 86-131 for one date. Each takes the price, rule type,
\* impact and confidence the rules before it have left.
ThirdStart(basePrice) ==
  [suggestedPrice |-> basePrice, ruleType |-> "demand", impact |-> "maintain",
   confidence |-> 85]

\* weekend pricing (lines 93-99)
ThirdWeekend(acc, basePrice, weekendDay) ==
  IF weekendDay
  THEN [suggestedPrice |-> RoundedProduct(basePrice, D_1_25), ruleType |-> "weekend",
        impact |-> "increase", confidence |-> 92]
  ELSE acc

\* seasonal pricing (lines 102-110)
ThirdSummer(acc, month) ==
  IF month >= 5 /\ month <= 8
  THEN [suggestedPrice |-> RoundedProduct(acc.suggestedPrice, D_1_15),
        ruleType |-> "seasonal", impact |-> "increase", confidence |-> 88]
  ELSE acc

\* simulated high-occupancy days (lines 114-121)
ThirdOccupancy(acc, occupancyDay) ==
  IF occupancyDay
  THEN [suggestedPrice |-> RoundedProduct(acc.suggestedPrice, D_1_1),
        ruleType |-> "occupancy", impact |-> "increase", confidence |-> 79]
  ELSE acc

\* last-minute discount (lines 125-131)
ThirdLastMinute(acc, basePrice, firstDays) ==
  IF firstDays /\ acc.impact # "increase"
  THEN [suggestedPrice |-> RoundedProduct(basePrice, D_0_9), ruleType |-> "demand",
        impact |-> "decrease", confidence |-> 76]
  ELSE acc

\* occupancyDay is index % 4 === 0 and firstDays is index <= 3
ThirdRules(basePrice, weekendDay, month, occupancyDay, firstDays) ==
  ThirdLastMinute(
    ThirdOccupancy(
      ThirdSummer(ThirdWeekend(ThirdStart(basePrice), basePrice, weekendDay), month),
      occupancyDay),
    basePrice, firstDays)

ThirdRulesTable ==
  [a \in Prices \X BOOLEAN \X (0..11) \X BOOLEAN \X BOOLEAN |->
     ThirdRules(a[1], a[2], a[3], a[4], a[5])] @@ <<>>

\* the iteration of the third variant, r being the outcome of the rules
ThirdIteration(property, localDay, index, r) ==
  [propertyId |-> property.id, currentPrice |-> property.base_price,
   suggestedPrice |-> r.suggestedPrice, confidence |-> r.confidence,
   impact |-> r.impact, ruleType |-> r.ruleType,
   date |-> localDay, index |-> index,
   pushed |-> r.suggestedPrice # property.base_price]

\* one iteration of next14Days.forEach((date, index) => ...): date is the
\* local calendar date of addDays(new Date(), index + 1); the weekend test
\* is isWeekend(date) || getDay(date) === 5
ThirdDate(property, localDay, index) ==
  ThirdIteration(property, localDay, index,
    ThirdRulesTable[<<property.base_price,
                      getDay(localDay) \in {0, 6} \/ getDay(localDay) = 5,
                      getMonth(localDay), index % 4 = 0, index <= 3>>])

\* the suggestion object pushed at lines 134-144
ThirdSuggestion(it) ==
  [propertyId |-> it.propertyId, currentPrice |-> it.currentPrice,
   suggestedPrice |-> it.suggestedPrice, confidence |-> it.confidence,
   impact |-> it.impact, ruleType |-> it.ruleType, date |-> it.date]

ThirdSuggestions(its) ==
  Once([k \in 1..Len(its) |-> ThirdSuggestion(its[k])])

\* line 149: the list handed to setSuggestions
ThirdReturn(its, newSuggestions) ==
  [iterations |-> its, allSuggestions |-> newSuggestions,
   returned |-> Slice(newSuggestions, MaxShownThird)]

\* lines 79-147: newSuggestions after the loop over the properties
ThirdCollect(props, its) ==
  ThirdReturn(its, Flatten(Once([p \in 1..Len(props) |->
                                   ThirdSuggestions(Pushed(its[p]))])))

\* lines 79-149
ThirdGenerate(props, c, t0, off) ==
  ThirdCollect(props,
    Once([p \in 1..Len(props) |->
      Once([i \in 1..HorizonDays |->
         ThirdDate(props[p], LocalDay(ReadAt((p - 1) * HorizonDays + i, c, t0), off) + i,
                   i - 1)])]))

\* the object built by response.suggestions.map in the AI-call variant
\* (lines 732-743)
MapSuggestionAI(property, s) ==
  [propertyId |-> property.id, date |-> s.date,
   currentPrice |-> property.base_price, suggestedPrice |-> s.suggestedPrice,
   confidence |-> s.confidence, factors |-> s.factors, impact |-> s.impact,
   ruleType |-> determineRuleType(s.factors)]

MapSuggestionsAI(property, list) ==
  Once([i \in 1..Len(list) |-> MapSuggestionAI(property, list[i])])

(***************************************************************************)
(* The components.                                                         *)
(***************************************************************************)
\* AI-call variant, generatePricingSuggestions of the service (lines
\* 725-749) when the call for every property comes to kind: the fallback
\* list after a failed call, a list of the response otherwise, a throw at
\* the first property for a body without the shape; no call is made for an
\* empty list. This variant throws at the call even so.
AiService_CallsFirst(props, kind, t0, off) ==
  [threw |-> kind \in ThrowingShapes,
   returned |-> <<>>]

AiService(props, kind, t0, off) ==
  [threw |-> kind \in ThrowingShapes /\ Len(props) > 0,
   returned |->
     IF kind \in ThrowingShapes THEN <<>>
     ELSE Slice(Flatten([p \in 1..Len(props) |->
            MapSuggestionsAI(props[p],
              IF kind \in CallFailures
              THEN Pushed(generateSmartFallback(buildPricingPrompt(props[p]),
                            Once([i \in 1..HorizonDays |-> t0]), off))
              ELSE CHOOSE l \in AiLists(props[p]) :
                     l[1].confidence = 80 /\ l[1].suggestedPrice # props[p].base_price)]),
            MaxShownAI)]

\* what the component's generatePricingSuggestions hands to setSuggestions
\* for props, or that it caught a throw: lines 254-262 of the current
\* variant, 827-829 of the AI-call variant, part_007 lines 78-149
Generated(comp, props, kind, t0, off) ==
  IF comp = "current"
  THEN [threw |-> FALSE,
        returned |-> IF Len(props) = 0 THEN <<>>
                     ELSE ServiceCurrent(props, HorizonDays * Len(props), t0, off).returned]
  ELSE IF comp = "third"
  THEN [threw |-> FALSE,
        returned |-> ThirdGenerate(props, HorizonDays * Len(props), t0, off).returned]
  ELSE AiService(props, kind, t0, off)

\* the toasts after generatePricingSuggestions has run for props to out
\* (lines 265-275, 831-843; part_007 lines 150-156)
GenerationToasts(comp, shown, props, out) ==
  IF out.threw THEN Append(shown, "generate_failed")
  ELSE IF comp = "current" /\ Len(props) > 0 THEN Append(shown, "generated")
  ELSE IF comp = "ai" /\ Len(out.returned) > 0 THEN Append(shown, "generated")
  ELSE shown

\* the row applyPricingSuggestion inserts, with the adjustment written as a
\* percentage of the current price
InsertRecord_AsPercentage(s) ==
  [property_id |-> s.propertyId, rule_type |-> s.ruleType,
   conditions |-> [dates |-> <<s.date>>, original_price |-> s.currentPrice],
   price_adjustment |-> (100 * (s.suggestedPrice - s.currentPrice)) \div s.currentPrice,
   is_percentage |-> TRUE, is_active |-> TRUE]

\* the row applyPricingSuggestion inserts into pricing_rules (lines 284-298,
\* part_007 lines 165-178), without rule_name and the confidence and factors
\* the current variant adds to the conditions
InsertRecord(s) ==
  [property_id |-> s.propertyId, rule_type |-> s.ruleType,
   conditions |-> [dates |-> <<s.date>>, original_price |-> s.currentPrice],
   price_adjustment |-> s.suggestedPrice - s.currentPrice,
   is_percentage |-> FALSE, is_active |-> TRUE]

(***************************************************************************)
(* State.                                                                  *)
(***************************************************************************)
VARIABLES
  now,         \* the clock: the instant new Date() returns
  tz,          \* the local offset from UTC, in ticks
  properties,  \* the property list handed to the engine
  budget,      \* invocations still to be made
  ticksLeft,   \* clock ticks still to pass between steps
  variant,     \* the variant whose invocation completed last, or "none"
  iterations,  \* per property, the 14 loop iterations of that invocation
  candidates,  \* allSuggestions / newSuggestions before the cut
  result,      \* the list the invocation returned
  threw,       \* the invocation rejected instead of returning
  history,     \* the current variant's invocations: start date and result
  aiIdx,       \* AI-call variant: the property whose call is awaited, or 0
  aiAll,       \* AI-call variant: allSuggestions of the running invocation
  aiLog,       \* AI-call variant: per property, the response and its use
  probe,       \* the arguments a helper is called with on its own
  answer,      \* what the helper returned for probe
  mounted,     \* the variant of the mounted component, or "none"
  loading,     \* the component's loading state
  generatingPrices, \* the component's generatingPrices state
  fetchState,  \* the select on properties: "idle", "pending", "ok", "failed"
  toasts,      \* the toasts shown, in order
  generations, \* the calls of the component's generatePricingSuggestions
  writer,      \* the call whose setSuggestions ran last, or 0
  inserts,     \* the inserts into pricing_rules attempted, in order
  photoRows,   \* property_photos of the gallery's property: id -> is_primary
  photos,      \* PhotoGallery's photos state: the rows fetchPhotos read last
  galleryLoading, \* PhotoGallery's loading state
  uploading,   \* PhotoGallery's uploading state
  galleryCalls, \* the gallery handlers that are awaiting a backend call
  selects,     \* the calls of fetchPhotos awaiting their select
  nextPhoto,   \* the id the next row of property_photos gets
  galleryToast \* the toast PhotoGallery showed last, or "none"

engineVars == <<ticksLeft, variant, iterations, candidates, threw, history,
                aiIdx, aiAll, aiLog>>
pureVars == <<probe, answer>>
pageVars == <<mounted, loading, generatingPrices, fetchState, toasts,
              generations, writer, inserts>>
galleryVars == <<photoRows, photos, galleryLoading, uploading, galleryCalls,
                 selects, nextPhoto, galleryToast>>
vars == <<now, tz, properties, budget, ticksLeft, variant, iterations,
          candidates, result, threw, history, aiIdx, aiAll, aiLog,
          pureVars, pageVars, galleryVars>>

(***************************************************************************)
(* Bounds of the model.                                                    *)
(***************************************************************************)
MaxProps == 2
MaxRuns  == 2
MaxTicks == 1
\* the longest factor list a helper is called with on its own
MaxFactors == 3
\* the clicks on a refresh button or on Apply while a component is mounted
MaxClicks == 2
\* the last position of the list shown whose Apply button is clicked
MaxPosition == 2

TzOffsets == {-1, 0, 1}

\* every instant of 2025
AllInstants == TicksPerDay .. (TicksPerDay * (DaysPerYear + 1) - 1)

\* the instants of 2025-02-28, 2025-04-10 and 2025-07-02
RunDays == {59, 100, 183}
RunInstants == {TicksPerDay * d + h : d \in RunDays, h \in 0..(TicksPerDay - 1)}

Catalogue ==
  << [id |-> 1, base_price |-> 200], [id |-> 2, base_price |-> 199],
     [id |-> 3, base_price |-> 200], [id |-> 4, base_price |-> 100] >>

\* the property lists of the multi-property specifications
PropertyLists ==
  {<<>>} \cup
  {SubSeq(Catalogue, ab[1], ab[2]) :
     ab \in {pr \in (1..Len(Catalogue)) \X (1..Len(Catalogue)) :
               pr[1] <= pr[2] /\ pr[2] - pr[1] < MaxProps}}

SingleProperty == {<<[id |-> 1, base_price |-> q]>> : q \in Prices}

\* the numbers of reads after which the clock may advance during an
\* invocation over n properties: after the first read of a property's loop,
\* or after its last; HorizonDays * n means no advance before the run ends
AdvancePoints(n) ==
  IF n = 0 THEN {0}
  ELSE {(p - 1) * HorizonDays + 1 : p \in 1..n} \cup {p * HorizonDays : p \in 1..n}

\* the factor names the rules push, and one they do not
FactorNames == {"baseline", "weekend", "holiday", "last_minute", "seasonal", "demand"}
FactorLists == UNION {[1..n -> FactorNames] : n \in 0..MaxFactors}
\* the arguments of calculateConfidence; determineRuleType takes the factors
Probes == [factors : FactorLists, isWeekend : BOOLEAN, isHoliday : BOOLEAN]
\* 2025-12-20, a Saturday
PureDay == 354

\* what the select on properties may return
PageLists == {SubSeq(Catalogue, 1, n) : n \in 0..MaxProps}
\* what the AI calls of one generation come to
PageKinds == {"network_error", "json_ok", "json_null"}
\* 2025-07-02, a Wednesday
PageDay == 183

\* a base price, a calendar date of 2025 and the 0-based index the date has
\* in the horizon: the arguments of one pass through the rules
RuleProbes == [base_price : Prices, date : 1..DaysPerYear, index : 0..(HorizonDays - 1)]

\* property lists with a property of degenerate base price, alone or
\* behind a property of base price 50
DegenerateLists ==
  {<<[id |-> 1, base_price |-> q]>> : q \in DegeneratePrices}
    \cup {<<Catalogue[4], [id |-> 1, base_price |-> q]>> : q \in DegeneratePrices}

InitCommon ==
  /\ variant = "none"
  /\ iterations = <<>>
  /\ candidates = <<>>
  /\ result = <<>>
  /\ threw = FALSE
  /\ history = <<>>
  /\ aiIdx = 0
  /\ aiAll = <<>>
  /\ aiLog = <<>>

\* no helper is called on its own
PureIdle ==
  /\ probe = <<>>
  /\ answer = <<>>

\* no component is mounted
PageIdle ==
  /\ mounted = "none"
  /\ loading = TRUE
  /\ generatingPrices = FALSE
  /\ fetchState = "idle"
  /\ toasts = <<>>
  /\ generations = <<>>
  /\ writer = 0
  /\ inserts = <<>>

\* no gallery is mounted
GalleryIdle ==
  /\ photoRows = <<>>
  /\ photos = <<>>
  /\ galleryLoading = TRUE
  /\ uploading = FALSE
  /\ galleryCalls = <<>>
  /\ selects = 0
  /\ nextPhoto = 1
  /\ galleryToast = "none"

(***************************************************************************)
(* Actions.                                                                *)
(***************************************************************************)
\* time passes between two steps
Tick ==
  /\ ticksLeft > 0
  /\ now' = now + 1
  /\ ticksLeft' = ticksLeft - 1
  /\ UNCHANGED <<tz, properties, budget, variant, iterations, candidates,
                 result, threw, history, aiIdx, aiAll, aiLog>>
  /\ UNCHANGED <<pureVars, pageVars, galleryVars>>

\* current variant: aiService.generatePricingSuggestions(properties)
RunCurrent ==
  /\ budget > 0
  /\ aiIdx = 0
  /\ \E c \in AdvancePoints(Len(properties)) :
       \E run \in {ServiceCurrent(properties, c, now, tz)} :
       /\ now' = IF c < HorizonDays * Len(properties) THEN now + 1 ELSE now
       /\ iterations' = run.iterations
       /\ candidates' = run.allSuggestions
       /\ result' = run.returned
       /\ history' = Append(history, [today |-> LocalDay(now, tz),
                                      returned |-> run.returned])
  /\ budget' = budget - 1
  /\ variant' = "current"
  /\ threw' = FALSE
  /\ UNCHANGED <<tz, properties, ticksLeft, aiIdx, aiAll, aiLog>>
  /\ UNCHANGED <<pureVars, pageVars, galleryVars>>

\* third variant: generatePricingSuggestions(propertiesData)
RunThird ==
  /\ budget > 0
  /\ aiIdx = 0
  /\ \E c \in AdvancePoints(Len(properties)) :
       \E run \in {ThirdGenerate(properties, c, now, tz)} :
       /\ now' = IF c < HorizonDays * Len(properties) THEN now + 1 ELSE now
       /\ iterations' = run.iterations
       /\ candidates' = run.allSuggestions
       /\ result' = run.returned
  /\ budget' = budget - 1
  /\ variant' = "third"
  /\ threw' = FALSE
  /\ UNCHANGED <<tz, properties, ticksLeft, history, aiIdx, aiAll, aiLog>>
  /\ UNCHANGED <<pureVars, pageVars, galleryVars>>

\* AI-call variant: aiService.generatePricingSuggestions(properties) is
\* called; it runs up to the first await of callAI
AIBegin ==
  /\ budget > 0
  /\ aiIdx = 0
  /\ budget' = budget - 1
  /\ aiAll' = <<>>
  /\ aiLog' = <<>>
  /\ iterations' = <<>>
  /\ candidates' = <<>>
  /\ threw' = FALSE
  /\ IF Len(properties) = 0
     THEN /\ aiIdx' = 0
          /\ variant' = "ai"
          /\ result' = <<>>
     ELSE /\ aiIdx' = 1
          /\ variant' = "none"
          /\ result' = <<>>
  /\ UNCHANGED <<now, tz, properties, ticksLeft, history>>
  /\ UNCHANGED <<pureVars, pageVars, galleryVars>>

\* AI-call variant: the call for properties[aiIdx] comes to resp; the loop
\* body (lines 729-745) runs up to the next await, the return or a throw.
\* The fallback reads the clock, which may advance after c reads.
AIResponse(resp, c) ==
  /\ aiIdx > 0
  /\ resp \in AiResponses(properties[aiIdx])
  /\ c \in IF resp.kind \in CallFailures THEN {1, HorizonDays} ELSE {HorizonDays}
  /\ \E fallback \in {generateSmartFallback(buildPricingPrompt(properties[aiIdx]),
                        Once([i \in 1..HorizonDays |-> ReadAt(i, c, now)]), tz)} :
     LET property == properties[aiIdx]
         failed   == resp.kind \in CallFailures
         \* response.suggestions of what callAI resolved to
         list == IF failed THEN Pushed(fallback) ELSE resp.suggestions
         throws == resp.kind \in ThrowingShapes
     IN
     \E mapped \in {IF throws THEN <<>> ELSE MapSuggestionsAI(property, list)} :
     /\ now' = IF c < HorizonDays THEN now + 1 ELSE now
     /\ aiLog' = Append(aiLog,
                   [kind |-> resp.kind,
                    path |-> IF failed THEN "fallback"
                             ELSE IF throws THEN "threw" ELSE "response",
                    fallback |-> MapSuggestionsAI(property, Pushed(fallback)),
                    added |-> mapped])
     /\ iterations' = Append(iterations, IF failed THEN fallback ELSE <<>>)
     /\ IF throws
        THEN /\ threw' = TRUE
             /\ aiIdx' = 0
             /\ aiAll' = <<>>
             /\ variant' = "ai"
             /\ UNCHANGED <<result, candidates>>
        ELSE IF aiIdx = Len(properties)
        THEN /\ threw' = FALSE
             /\ aiIdx' = 0
             /\ aiAll' = <<>>
             /\ variant' = "ai"
             /\ candidates' = aiAll \o mapped
             /\ result' = Slice(aiAll \o mapped, MaxShownAI)
        ELSE /\ aiIdx' = aiIdx + 1
             /\ aiAll' = aiAll \o mapped
             /\ UNCHANGED <<threw, variant, result, candidates>>
  /\ UNCHANGED <<tz, properties, budget, ticksLeft, history>>
  /\ UNCHANGED <<pureVars, pageVars, galleryVars>>

\* the call comes to nothing usable and callAI falls back
AICallFails == \E k \in CallFailures, c \in {1, HorizonDays} :
  AIResponse([kind |-> k, suggestions |-> <<>>], c)

\* the call returns a JSON body
AICallReturns ==
  /\ aiIdx > 0
  /\ \E resp \in AiResponses(properties[aiIdx]) :
       /\ resp.kind \notin CallFailures
       /\ AIResponse(resp, HorizonDays)

\* calculateConfidence of the current and of the AI-call variant is
\* called with the arguments of probe
ApplyConfidence ==
  /\ answer = <<>>
  /\ answer' = [op |-> "calculateConfidence",
                current |-> calculateConfidence(probe.factors, probe.isWeekend,
                                                probe.isHoliday),
                ai |-> calculateConfidenceAI(probe.factors, probe.isWeekend,
                                             probe.isHoliday)]
  /\ UNCHANGED <<now, tz, properties, budget, ticksLeft, variant, iterations,
                 candidates, result, threw, history, aiIdx, aiAll, aiLog,
                 probe, pageVars, galleryVars>>

\* determineRuleType is called with the factors of probe
ApplyRuleType ==
  /\ answer = <<>>
  /\ answer' = [op |-> "determineRuleType",
                ruleType |-> determineRuleType(probe.factors)]
  /\ UNCHANGED <<now, tz, properties, budget, ticksLeft, variant, iterations,
                 candidates, result, threw, history, aiIdx, aiAll, aiLog,
                 probe, pageVars, galleryVars>>

\* the component calls its generatePricingSuggestions(props): the current
\* and the third variant run to the end before anything else happens, the
\* AI-call variant stops at the await of the service with generatingPrices
\* set
Generate(by, props) ==
  IF mounted = "ai"
  THEN /\ generations' = Append(generations,
            [by |-> by, props |-> props, status |-> "running", returned |-> <<>>])
       /\ generatingPrices' = TRUE
       /\ UNCHANGED <<result, writer, toasts>>
  ELSE \E out \in {Generated(mounted, props, "none", now, tz)} :
       /\ generations' = Append(generations,
            [by |-> by, props |-> props, status |-> "done", returned |-> out.returned])
       /\ result' = out.returned
       /\ writer' = Len(generations) + 1
       /\ toasts' = GenerationToasts(mounted, toasts, props, out)
       /\ generatingPrices' = FALSE

\* fetchProperties: the select returns data (lines 216-248, 798-821,
\* part_007 lines 49-72)
FetchOk ==
  /\ fetchState = "pending"
  /\ fetchState' = "ok"
  /\ loading' = FALSE
  /\ \E data \in PageLists :
       /\ properties' = data
       /\ IF Len(data) > 0
          THEN Generate("load", data)
          ELSE UNCHANGED <<generations, generatingPrices, result, writer, toasts>>
  /\ UNCHANGED <<now, tz, budget, engineVars, pureVars, galleryVars, mounted, inserts>>

\* fetchProperties with the catch block leaving loading set
FetchError_KeepsLoading ==
  /\ fetchState = "pending"
  /\ fetchState' = "failed"
  /\ toasts' = Append(toasts, "fetch_failed")
  /\ UNCHANGED <<now, tz, properties, budget, result, engineVars, pureVars, galleryVars,
                 mounted, loading, generatingPrices, generations, writer, inserts>>

\* fetchProperties: the select returns an error, which is thrown to the
\* catch block (lines 223, 239-247; 805, 811-820)
FetchError ==
  /\ fetchState = "pending"
  /\ fetchState' = "failed"
  /\ toasts' = Append(toasts, "fetch_failed")
  /\ loading' = FALSE
  /\ UNCHANGED <<now, tz, properties, budget, result, engineVars, pureVars, galleryVars,
                 mounted, generatingPrices, generations, writer, inserts>>

\* a click on the button of the header, disabled while generatingPrices
\* (lines 391-394, 961-964, part_007 lines 267-270)
ClickRefresh ==
  /\ ~loading
  /\ ~generatingPrices
  /\ budget > 0
  /\ budget' = budget - 1
  /\ Generate("click", properties)
  /\ UNCHANGED <<now, tz, properties, engineVars, pureVars, galleryVars, mounted, loading,
                 fetchState, inserts>>

\* a click on the button of the empty state, shown while there are
\* properties and no suggestions and never disabled (lines 428, 998,
\* part_007 line 303)
ClickRefreshAnalysis ==
  /\ ~loading
  /\ Len(properties) > 0
  /\ Len(result) = 0
  /\ budget > 0
  /\ budget' = budget - 1
  /\ Generate("click", properties)
  /\ UNCHANGED <<now, tz, properties, engineVars, pureVars, galleryVars, mounted, loading,
                 fetchState, inserts>>

\* AI-call variant: the service call a generation awaits settles (lines
\* 828-846); every AI call of the generation came to kind
GenerationSettles ==
  \E g \in 1..Len(generations), kind \in PageKinds :
    /\ generations[g].status = "running"
    /\ \E out \in {Generated(mounted, generations[g].props, kind, now, tz)} :
         /\ generations' = [generations EXCEPT
               ![g].status = IF out.threw THEN "threw" ELSE "done",
               ![g].returned = out.returned]
         /\ result' = IF out.threw THEN result ELSE out.returned
         /\ writer' = IF out.threw THEN writer ELSE g
         /\ toasts' = GenerationToasts(mounted, toasts, generations[g].props, out)
    /\ generatingPrices' = FALSE
    /\ UNCHANGED <<now, tz, properties, budget, engineVars, pureVars, galleryVars, mounted,
                   loading, fetchState, inserts>>

\* a click on Apply of a suggestion shown: applyPricingSuggestion runs up
\* to the await of the insert (lines 281-298); shown is the suggestions
\* list of the render the handler belongs to, generation the call of
\* generatePricingSuggestions that set it. The button is never disabled
\* (lines 498-503).
ClickApply ==
  /\ ~loading
  /\ Len(properties) > 0
  /\ budget > 0
  /\ budget' = budget - 1
  /\ \E k \in 1..Len(result) :
       /\ k <= MaxPosition
       /\ inserts' = Append(inserts,
            [suggestion |-> result[k], shown |-> result, generation |-> writer,
             record |-> InsertRecord(result[k]), status |-> "pending"])
  /\ UNCHANGED <<now, tz, properties, result, engineVars, pureVars, galleryVars,
                 mounted, loading, generatingPrices, fetchState, toasts,
                 generations, writer>>

\* the insert succeeds (lines 300-307)
InsertOk ==
  \E k \in 1..Len(inserts) :
    /\ inserts[k].status = "pending"
    /\ inserts' = [inserts EXCEPT ![k].status = "ok"]
    /\ toasts' = Append(toasts, "applied")
    /\ result' = Filter(inserts[k].shown,
                    [i \in 1..Len(inserts[k].shown) |->
                       inserts[k].shown[i] # inserts[k].suggestion])
    /\ UNCHANGED <<now, tz, properties, budget, engineVars, pureVars, galleryVars, mounted,
                   loading, generatingPrices, fetchState, generations, writer>>

\* the insert fails and the catch block inserts once more
InsertError_Retries ==
  \E k \in 1..Len(inserts) :
    /\ inserts[k].status = "pending"
    /\ inserts' = Append([inserts EXCEPT ![k].status = "failed"],
                         [inserts[k] EXCEPT !.status = "pending"])
    /\ toasts' = Append(toasts, "apply_failed")
    /\ UNCHANGED <<now, tz, properties, budget, result, engineVars, pureVars, galleryVars,
                   mounted, loading, generatingPrices, fetchState, generations,
                   writer>>

\* the insert fails: the error is thrown to the catch block (lines 300,
\* 308-315)
InsertError ==
  \E k \in 1..Len(inserts) :
    /\ inserts[k].status = "pending"
    /\ inserts' = [inserts EXCEPT ![k].status = "failed"]
    /\ toasts' = Append(toasts, "apply_failed")
    /\ UNCHANGED <<now, tz, properties, budget, result, engineVars, pureVars, galleryVars,
                   mounted, loading, generatingPrices, fetchState, generations,
                   writer>>

\* the forEach body of each of the three variants runs for the property and
\* the date of probe; the AI-call variant takes the base price from the
\* prompt
ApplyRules ==
  /\ answer = <<>>
  /\ answer' = [op |-> "rules",
                current |-> SmartDate(probe.base_price, probe.date, probe.index, tz),
                ai |-> FallbackDate(
                         extractBasePriceFromPrompt(
                           buildPricingPrompt([id |-> 1, base_price |-> probe.base_price])),
                         probe.date, probe.index, tz),
                third |-> ThirdDate([id |-> 1, base_price |-> probe.base_price],
                                    LocalDay(ParseIsoDate(probe.date), tz), probe.index)]
  /\ UNCHANGED <<now, tz, properties, budget, ticksLeft, variant, iterations,
                 candidates, result, threw, history, aiIdx, aiAll, aiLog,
                 probe, pageVars, galleryVars>>

(***************************************************************************)
(* Specifications.                                                         *)
(***************************************************************************)
\* the rule engines of the three variants on one property, from every
\* instant of a year and every offset; the AI call always fails
Init ==
  /\ now \in AllInstants
  /\ tz \in TzOffsets
  /\ properties \in SingleProperty
  /\ budget = 1
  /\ ticksLeft = 0
  /\ InitCommon
  /\ GalleryIdle
  /\ PureIdle
  /\ PageIdle

Next == RunCurrent \/ RunThird \/ AIBegin \/ AICallFails

Spec == Init /\ [][Next]_vars

\* the current variant on property lists, invoked repeatedly as time passes
InitCurrent ==
  /\ now \in RunInstants
  /\ tz \in TzOffsets
  /\ properties \in PropertyLists
  /\ budget = MaxRuns
  /\ ticksLeft = MaxTicks
  /\ InitCommon
  /\ GalleryIdle
  /\ PureIdle
  /\ PageIdle

NextCurrent == RunCurrent \/ Tick

SpecCurrent == InitCurrent /\ [][NextCurrent]_vars

\* the two variants that cut the list to ten, on property lists; the AI
\* call may come to anything
InitTen ==
  /\ now \in RunInstants
  /\ tz \in TzOffsets
  /\ properties \in PropertyLists
  /\ budget = 1
  /\ ticksLeft = 0
  /\ InitCommon
  /\ GalleryIdle
  /\ PureIdle
  /\ PageIdle

NextTen == RunThird \/ AIBegin \/ AICallFails \/ AICallReturns

SpecTen == InitTen /\ [][NextTen]_vars

\* the helpers called on their own with every argument up to MaxFactors
\* factors, next to an invocation of the current variant
InitPure ==
  /\ now = TicksPerDay * PureDay
  /\ tz = 0
  /\ properties = <<Catalogue[1]>>
  /\ budget = 1
  /\ ticksLeft = 0
  /\ InitCommon
  /\ GalleryIdle
  /\ probe \in Probes
  /\ answer = <<>>
  /\ PageIdle

NextPure == ApplyConfidence \/ ApplyRuleType \/ RunCurrent

SpecPure == InitPure /\ [][NextPure]_vars

\* a component of one of the three variants from its mount: the fetch of
\* the properties, the generations the load and the refresh buttons start,
\* and the suggestions applied
InitPage ==
  /\ now = TicksPerDay * PageDay
  /\ tz = 0
  /\ properties = <<>>
  /\ budget = MaxClicks
  /\ ticksLeft = 0
  /\ InitCommon
  /\ GalleryIdle
  /\ PureIdle
  /\ mounted \in {"current", "ai", "third"}
  /\ loading = TRUE
  /\ generatingPrices = FALSE
  /\ fetchState = "pending"
  /\ toasts = <<>>
  /\ generations = <<>>
  /\ writer = 0
  /\ inserts = <<>>

NextPage ==
  \/ FetchOk
  \/ FetchError
  \/ ClickRefresh
  \/ ClickRefreshAnalysis
  \/ GenerationSettles
  \/ ClickApply
  \/ InsertOk
  \/ InsertError

SpecPage == InitPage /\ [][NextPage]_vars

\* the current variant on property lists that hold a property whose base
\* price is zero, negative or null
InitDegenerate ==
  /\ now \in RunInstants
  /\ tz \in TzOffsets
  /\ properties \in DegenerateLists
  /\ budget = 1
  /\ ticksLeft = 0
  /\ InitCommon
  /\ GalleryIdle
  /\ PureIdle
  /\ PageIdle

NextDegenerate == RunCurrent

SpecDegenerate == InitDegenerate /\ [][NextDegenerate]_vars

\* the rules of the three variants on one property and one date, for every
\* date of a year at every place of the horizon
InitRules ==
  /\ now = TicksPerDay
  /\ tz = 0
  /\ properties = <<>>
  /\ budget = 0
  /\ ticksLeft = 0
  /\ InitCommon
  /\ GalleryIdle
  /\ probe \in RuleProbes
  /\ answer = <<>>
  /\ PageIdle

NextRules == ApplyRules

SpecRules == InitRules /\ [][NextRules]_vars

\* a call of generatePricingSuggestions is still awaiting its service call:
\* the states GenerationSettles is enabled in
GenerationRunning ==
  \E g \in 1..Len(generations) : generations[g].status = "running"

\* the component when every backend call returns in the end: the select on
\* properties, the AI calls of a generation and the inserts. The second
\* conjunct is weak fairness of GenerationSettles with its enabling
\* condition written out.
SpecPageLive ==
  /\ InitPage
  /\ [][NextPage]_vars
  /\ WF_vars(FetchError \/ FetchOk)
  /\ ([]<>(~GenerationRunning) \/ []<><<GenerationSettles>>_vars)
  /\ WF_vars(InsertError \/ InsertOk)

(***************************************************************************)
(* Properties.                                                             *)
(***************************************************************************)
\* |suggestedPrice - currentPrice| * confidence / 100, in exact arithmetic
\* and scaled by 100 * PriceScale
ExactScore(s) == Abs(s.suggestedPrice - s.currentPrice) * s.confidence

\* the number of positions of seq holding e
Count(seq, e) == Cardinality({i \in 1..Len(seq) : seq[i] = e})

\* list is in non-increasing order of score
Descending(list) ==
  \A i \in 1..Len(list) : \A j \in 1..Len(list) :
    i < j => ExactScore(list[i]) >= ExactScore(list[j])

\* list is drawn from all, and nothing of all that is left out of list
\* scores strictly higher than an entry of list
KeepsHighest(list, all) ==
  /\ \A i \in 1..Len(list) : Count(list, list[i]) <= Count(all, list[i])
  /\ \A i \in 1..Len(list) :
       Cardinality({k \in 1..Len(all) : ExactScore(all[k]) > ExactScore(list[i])})
         = Cardinality({k \in 1..Len(list) : ExactScore(list[k]) > ExactScore(list[i])})

\* the local calendar date on which the last invocation of the current
\* variant started
RunToday == history[Len(history)].today

\* C1: every suggestion the deterministic rule path of any of the three
\* variants returns has a suggestedPrice different from the currentPrice it
\* is reported with (all base prices of the model are positive)
C1_SuggestedDiffers ==
  \A i \in 1..Len(result) : result[i].suggestedPrice # result[i].currentPrice

C1_Witness ==
  /\ variant = "ai"
  /\ properties[1].base_price = 199
  /\ Len(result) > 0

\* C2: every suggestion of the deterministic rule path of any of the three
\* variants carries a confidence between 60 and 95 inclusive
C2_ConfidenceInRange ==
  \A i \in 1..Len(result) : result[i].confidence \in 60..95

C2_Witness ==
  /\ variant = "current"
  /\ \E i \in 1..Len(result) :
       /\ Includes(result[i].factors, "weekend")
       /\ Includes(result[i].factors, "holiday")
       /\ Includes(result[i].factors, "seasonal")
       /\ result[i].confidence = 95

\* C3: in the AI-call variant, whenever the call for a property fails
\* (network error, non-2xx status, a body that is not JSON, or a JSON body
\* that has not the shape {suggestions: [...]}), the fallback suggestions are
\* used for that property and the invocation does not throw
C3_FailureFallsBack ==
  /\ \A k \in 1..Len(aiLog) :
       aiLog[k].kind \in CallFailures \cup BadShapes =>
         aiLog[k].path = "fallback" /\ aiLog[k].added = aiLog[k].fallback
  /\ ~threw

\* C4: in the AI-call variant, every suggestion of the returned list, also
\* one copied from a successful AI response, has suggestedPrice different
\* from currentPrice and a confidence in [60, 95]
C4_ReturnedKeepInvariant ==
  (variant = "ai" /\ ~threw) =>
    \A i \in 1..Len(result) :
      /\ result[i].suggestedPrice # result[i].currentPrice
      /\ result[i].confidence \in 60..95

\* C5: two invocations of the current variant with the same property list
\* that start on the same local calendar date return identical lists
C5_SameTodaySameList ==
  \A i \in 1..Len(history) : \A j \in 1..Len(history) :
    history[i].today = history[j].today =>
      history[i].returned = history[j].returned

\* C6: in one invocation of the current variant every property is evaluated
\* against the 14 dates today+1 .. today+14, in this order
C6_SameFourteenDates ==
  variant = "current" =>
    \A p \in 1..Len(iterations) : \A i \in 1..HorizonDays :
      iterations[p][i].date = RunToday + i

\* C7: the list the current variant returns has at most 12 entries, is in
\* non-increasing order of score, and no candidate left out of it scores
\* strictly higher than an entry of it
C7_TopTwelveSorted ==
  variant = "current" =>
    /\ Len(result) <= 12
    /\ Descending(result)
    /\ KeepsHighest(result, candidates)

C7_Witness ==
  /\ variant = "current"
  /\ Len(candidates) > 12
  /\ Len(result) = 12
  /\ ~Descending(candidates)
  /\ ExactScore(result[1]) > ExactScore(result[12])

\* C8: in the AI-call variant and the third variant, when more than 10
\* suggestions qualify, the 10 kept are the 10 of highest score, in
\* descending order of score
C8_TenHighest ==
  (variant \in {"ai", "third"} /\ ~threw /\ Len(candidates) > 10) =>
    /\ Len(result) = 10
    /\ Descending(result)
    /\ KeepsHighest(result, candidates)

\* the day of week, month and day of month the code reads for an iteration
IsFriSat(it) == getDay(it.localDay) \in {5, 6}
IsSummer(it) == getMonth(it.localDay) \in 5..8
InHolidayTable(it) == <<getMonth(it.localDay), getDate(it.localDay)>> \in holidays

\* C9 as stated: for every horizon date that is a Friday or Saturday in June
\* to September, the total multiplier is exactly 1.375 and the factors
\* contain 'weekend' and 'seasonal'
C9_Original ==
  variant = "current" =>
    \A p \in 1..Len(iterations) : \A i \in 1..HorizonDays :
      LET it == iterations[p][i] IN
      (IsFriSat(it) /\ IsSummer(it)) =>
        /\ it.multiplier = DoubleOf(11, -3)
        /\ Includes(it.factors, "weekend")
        /\ Includes(it.factors, "seasonal")

\* C9: for every horizon date that is a Friday or Saturday in June to
\* September and is not in the holiday table, the total multiplier is exactly
\* 1.375 = 11/8 and the factors contain 'weekend' and 'seasonal'
C9_WeekendSummer ==
  variant = "current" =>
    \A p \in 1..Len(iterations) : \A i \in 1..HorizonDays :
      LET it == iterations[p][i] IN
      (IsFriSat(it) /\ IsSummer(it) /\ ~InHolidayTable(it)) =>
        /\ it.multiplier = DoubleOf(11, -3)
        /\ Includes(it.factors, "weekend")
        /\ Includes(it.factors, "seasonal")

C9_Witness ==
  /\ variant = "current"
  /\ \E i \in 1..HorizonDays :
       LET it == iterations[1][i] IN
       /\ IsFriSat(it) /\ IsSummer(it) /\ ~InHolidayTable(it)
       /\ it.pushed
       /\ it.suggestedPrice = 276

\* C10: for a horizon date among the first 3 that is a non-holiday Monday to
\* Thursday outside June-September and outside December-February, the total
\* multiplier is exactly 0.9 and the impact is 'decrease'
C10_LastMinute ==
  variant = "current" =>
    \A p \in 1..Len(iterations) : \A i \in 1..HorizonDays :
      LET it == iterations[p][i] IN
      (/\ it.index <= 2
       /\ getDay(it.localDay) \in 1..4
       /\ ~InHolidayTable(it)
       /\ getMonth(it.localDay) \notin {5, 6, 7, 8, 11, 0, 1}) =>
        /\ it.multiplier = D_0_9
        /\ it.impact = "decrease"

\* the winter rule leaves 'seasonal' among the factors of a date outside the
\* summer months, and nothing else does
WinterApplied(it) == ~IsSummer(it) /\ Includes(it.factors, "seasonal")

\* C11: in the current variant the winter rule is applied to a date if and
\* only if its month is December, January or February and the date is not in
\* the holiday table
C11_WinterRule ==
  variant = "current" =>
    \A p \in 1..Len(iterations) : \A i \in 1..HorizonDays :
      LET it == iterations[p][i] IN
      WinterApplied(it) <=>
        (getMonth(it.localDay) \in {11, 0, 1} /\ ~InHolidayTable(it))

\* C12: in every variant the last-minute discount is applied only to dates
\* among the first 3 days of the horizon and never to a date with the weekend
\* or holiday premium; 'last_minute' never appears together with 'weekend' or
\* 'holiday'
C12_LastMinuteOnly ==
  /\ variant \in {"current", "ai"} =>
       \A p \in 1..Len(iterations) : \A i \in 1..Len(iterations[p]) :
         LET it == iterations[p][i] IN
         Includes(it.factors, "last_minute") =>
           /\ it.index <= 2
           /\ ~it.isWeekend /\ ~it.isHoliday
           /\ ~Includes(it.factors, "weekend")
           /\ ~Includes(it.factors, "holiday")
  /\ variant = "third" =>
       \A p \in 1..Len(iterations) : \A i \in 1..Len(iterations[p]) :
         LET it == iterations[p][i] IN
         it.impact = "decrease" =>
           /\ it.index <= 2
           /\ getDay(it.date) \notin {0, 5, 6}

\* The product of the factors of the rules that fired for an iteration of
\* the current variant, as a fraction: 5/4 weekend, 23/20 holiday, 9/10
\* last-minute, 11/10 summer, 19/20 winter.
FiredNum(it) ==
  (IF Includes(it.factors, "weekend") THEN 5 ELSE 1)
  * (IF Includes(it.factors, "holiday") THEN 23 ELSE 1)
  * (IF Includes(it.factors, "last_minute") THEN 9 ELSE 1)
  * (IF Includes(it.factors, "seasonal") THEN (IF IsSummer(it) THEN 11 ELSE 19) ELSE 1)

FiredDen(it) ==
  (IF Includes(it.factors, "weekend") THEN 4 ELSE 1)
  * (IF Includes(it.factors, "holiday") THEN 20 ELSE 1)
  * (IF Includes(it.factors, "last_minute") THEN 10 ELSE 1)
  * (IF Includes(it.factors, "seasonal") THEN (IF IsSummer(it) THEN 10 ELSE 20) ELSE 1)

\* q/PriceScale times num/den rounded to the nearest integer, halves up, as
\* a price in half units
ExactRounded(q, num, den) ==
  PriceScale * ((2 * q * num + PriceScale * den) \div (2 * PriceScale * den))

\* C13: suggestedPrice equals basePrice * multiplier rounded to the nearest
\* integer, exact halves up, the multiplier being the product of the factors
\* of all rules that fired
C13_RoundedProduct ==
  variant = "current" =>
    \A p \in 1..Len(iterations) : \A i \in 1..HorizonDays :
      LET it == iterations[p][i] IN
      it.suggestedPrice =
        ExactRounded(properties[p].base_price, FiredNum(it), FiredDen(it))
\* the sum of the spec's confidence terms with the given last bonus, clamped
\* to [60, 95]
ConfidenceTerms(pr, bonus) ==
  Min(95, Max(60,
    75 + (IF pr.isWeekend THEN 15 ELSE 0) + (IF pr.isHoliday THEN 10 ELSE 0)
       + (IF \E i \in DOMAIN pr.factors : pr.factors[i] = "seasonal" THEN 5 ELSE 0)
       - (IF \E i \in DOMAIN pr.factors : pr.factors[i] = "last_minute" THEN 10 ELSE 0)
       + bonus))

\* C14: for every factor list and every pair of flags, calculateConfidence
\* of the current variant returns 75 + 15 (weekend) + 10 (holiday)
\* + 5 ('seasonal' among the factors) - 10 ('last_minute' among them)
\* + 5 (more than 2 factors) clamped to [60, 95], and that of the AI-call
\* variant returns the same without the last bonus
C14_ConfidenceFormula ==
  (answer # <<>> /\ answer.op = "calculateConfidence") =>
    /\ answer.current =
         ConfidenceTerms(probe, IF Cardinality(DOMAIN probe.factors) > 2 THEN 5 ELSE 0)
    /\ answer.ai = ConfidenceTerms(probe, 0)

\* both have answered, one clamped at the top and the other five below it
C14_Witness ==
  /\ answer # <<>>
  /\ answer.op = "calculateConfidence"
  /\ Len(probe.factors) = MaxFactors
  /\ probe.isWeekend
  /\ answer.current = 95
  /\ answer.ai = 90

\* the rule type the priority weekend > seasonal > holiday > last_minute
\* gives a set of factors
RuleTypeOfSet(S) ==
  CASE "weekend" \in S -> "weekend"
    [] "weekend" \notin S /\ "seasonal" \in S -> "seasonal"
    [] {"weekend", "seasonal"} \cap S = {} /\ "holiday" \in S -> "event"
    [] {"weekend", "seasonal", "holiday"} \cap S = {} /\ "last_minute" \in S -> "demand"
    [] OTHER -> "occupancy"

\* C15: determineRuleType returns 'weekend' for factors containing
\* 'weekend', else 'seasonal' for 'seasonal', else 'event' for 'holiday',
\* else 'demand' for 'last_minute', else 'occupancy'; and every suggestion
\* the current variant returns carries the rule type of its own factors
C15_RuleType ==
  /\ (answer # <<>> /\ answer.op = "determineRuleType") =>
       answer.ruleType = RuleTypeOfSet({probe.factors[i] : i \in DOMAIN probe.factors})
  /\ variant = "current" =>
       \A i \in 1..Len(result) :
         result[i].ruleType =
           RuleTypeOfSet({result[i].factors[k] : k \in DOMAIN result[i].factors})

\* determineRuleType has answered 'seasonal' for factors that also hold
\* 'holiday', and the list returned holds an 'event' and a 'weekend'
C15_Witness ==
  /\ answer # <<>>
  /\ answer.op = "determineRuleType"
  /\ answer.ruleType = "seasonal"
  /\ Includes(probe.factors, "holiday")
  /\ variant = "current"
  /\ \E i \in 1..Len(result) : result[i].ruleType = "event"
  /\ \E i \in 1..Len(result) : result[i].ruleType = "weekend"

\* C16: given an empty property list, generatePricingSuggestions returns an
\* empty list without throwing, and the component's suggestion list becomes
\* empty
C16_EmptyList ==
  \A g \in 1..Len(generations) :
    (generations[g].props = <<>> /\ generations[g].status # "running") =>
      /\ generations[g].status = "done"
      /\ generations[g].returned = <<>>
      /\ result = <<>>

\* a refresh of a component whose fetch returned no property has run
C16_Witness ==
  /\ mounted = "current"
  /\ fetchState = "ok"
  /\ properties = <<>>
  /\ Len(generations) = 1
  /\ generations[1].by = "click"
  /\ generations[1].status = "done"
  /\ result = <<>>

\* C17: every row applyPricingSuggestion writes has property_id and
\* rule_type of the applied suggestion, price_adjustment equal to
\* suggestedPrice - currentPrice as an absolute amount, is_percentage false,
\* is_active true, and conditions with the suggestion's date and original
\* price
C17_InsertedRecord ==
  \A k \in 1..Len(inserts) :
    /\ inserts[k].record.property_id = inserts[k].suggestion.propertyId
    /\ inserts[k].record.rule_type = inserts[k].suggestion.ruleType
    /\ inserts[k].record.price_adjustment =
         inserts[k].suggestion.suggestedPrice - inserts[k].suggestion.currentPrice
    /\ inserts[k].record.is_percentage = FALSE
    /\ inserts[k].record.is_active = TRUE
    /\ inserts[k].record.conditions.dates = <<inserts[k].suggestion.date>>
    /\ inserts[k].record.conditions.original_price = inserts[k].suggestion.currentPrice

\* a row with a price increase has been written by the third variant
C17_Witness ==
  /\ mounted = "third"
  /\ \E k \in 1..Len(inserts) :
       /\ inserts[k].status = "ok"
       /\ inserts[k].record.price_adjustment > 0
       /\ inserts[k].record.conditions.original_price = Catalogue[1].base_price

\* C18: when the insert of applyPricingSuggestion fails, an error is shown,
\* no further insert is attempted, and the suggestion list is left as it was
C18_InsertFailure ==
  [][\A k \in 1..Len(inserts) :
       (inserts[k].status = "pending" /\ inserts'[k].status = "failed") =>
         /\ toasts' = Append(toasts, "apply_failed")
         /\ Len(inserts') = Len(inserts)
         /\ result' = result]_vars

\* an insert has failed and its suggestion is still in the list
C18_Witness ==
  /\ \E k \in 1..Len(inserts) :
       /\ inserts[k].status = "failed"
       /\ Includes(result, inserts[k].suggestion)
  /\ Includes(toasts, "apply_failed")

\* C19: when the fetch of the properties returns an error, an error is
\* shown, generatePricingSuggestions is not invoked for that load, the
\* suggestion list is left as it was, and loading becomes false
C19_FetchFailure ==
  [][(fetchState = "pending" /\ fetchState' = "failed") =>
       /\ toasts' = Append(toasts, "fetch_failed")
       /\ generations' = generations
       /\ \A g \in 1..Len(generations') : generations'[g].by # "load"
       /\ result' = result
       /\ loading' = FALSE]_vars

\* the fetch of the AI-call variant has failed
C19_Witness ==
  /\ mounted = "ai"
  /\ fetchState = "failed"
  /\ toasts = <<"fetch_failed">>
  /\ generations = <<>>
  /\ ~loading

\* C20: once no generation is in flight, the suggestion list is the result
\* of the generation started last (when that one returned a list and no
\* suggestion has been applied since)
C20_LatestWins ==
  (/\ Len(generations) > 0
   /\ \A g \in 1..Len(generations) : generations[g].status # "running"
   /\ generations[Len(generations)].status = "done"
   /\ Len(inserts) = 0) =>
    result = generations[Len(generations)].returned

\* C21: every suggestion of the current variant carries the impact of its
\* price direction: 'increase' exactly when suggestedPrice > currentPrice,
\* 'decrease' exactly when suggestedPrice < currentPrice, never 'maintain'
C21_ImpactAgrees ==
  variant = "current" =>
    \A i \in 1..Len(result) :
      /\ result[i].impact = "increase" <=> result[i].suggestedPrice > result[i].currentPrice
      /\ result[i].impact = "decrease" <=> result[i].suggestedPrice < result[i].currentPrice
      /\ result[i].impact # "maintain"

\* a base price that is zero, negative or missing
Degenerate(q) == q = NullPrice \/ q <= 0

\* C22: a property whose base price is zero, negative or missing contributes
\* no suggestion to the list generatePricingSuggestions returns, and no
\* returned suggestion has a zero or negative suggestedPrice
C22_SkipsDegenerate ==
  variant = "current" =>
    \A i \in 1..Len(result) :
      /\ \A p \in 1..Len(properties) :
           properties[p].id = result[i].propertyId =>
             ~Degenerate(properties[p].base_price)
      /\ result[i].suggestedPrice > 0

\* C23: for the same property and the same horizon date, when the winter
\* rule does not apply to the date and the holiday tables agree on it, the
\* rules of the three variants yield the same suggestedPrice and the same
\* impact
C23_VariantsAgree ==
  (/\ answer # <<>>
   /\ answer.op = "rules"
   /\ ~WinterApplied(answer.current)
   /\ isHoliday(answer.current.localDay) = isHolidayAI(answer.current.localDay)) =>
    /\ answer.ai.suggestedPrice = answer.current.suggestedPrice
    /\ answer.ai.impact = answer.current.impact
    /\ answer.third.suggestedPrice = answer.current.suggestedPrice
    /\ answer.third.impact = answer.current.impact

\* the calls of generatePricingSuggestions that have set the suggestion list
Written(gens) == {g \in 1..Len(gens) : gens[g].status = "done"}

\* C24: after the insert of an Apply succeeds the applied suggestion is
\* absent from the suggestion list, and it stays absent until a generation
\* sets the list, whatever inserts of other Apply clicks complete meanwhile
C24_AppliedStaysAbsent ==
  [][\A k \in 1..Len(inserts) :
       (/\ inserts'[k].status = "ok"
        /\ inserts[k].status = "pending" \/ ~Includes(result, inserts[k].suggestion)
        /\ Written(generations') = Written(generations)) =>
         ~Includes(result', inserts[k].suggestion)]_vars

\* C25: for each suggestion shown by one generation at most one row is
\* inserted into pricing_rules, whatever Apply clicks are made on it
C25_OneRecordPerSuggestion ==
  \A j \in 1..Len(inserts) : \A k \in 1..Len(inserts) :
    (/\ j < k
     /\ inserts[j].status = "ok"
     /\ inserts[k].status = "ok"
     /\ inserts[j].generation = inserts[k].generation) =>
      inserts[j].suggestion # inserts[k].suggestion

\* C26: in the AI-call variant every fallback suggestion for a property is
\* priced from the property's own base price: suggestedPrice is
\* Math.round(property.base_price * multiplier), for non-integer base
\* prices too
C26_FallbackBasePrice ==
  (variant = "ai" /\ ~threw) =>
    \A p \in 1..Len(iterations) : \A i \in 1..Len(iterations[p]) :
      iterations[p][i].suggestedPrice =
        RoundedProduct(properties[p].base_price, iterations[p][i].multiplier)

\* C27: in the AI-call variant generatingPrices is true in every state in
\* which a generation is in flight
C27_GeneratingWhileInFlight ==
  mounted = "ai" =>
    ((\E g \in 1..Len(generations) : generations[g].status = "running") =>
       generatingPrices)

\* C28: when every backend call returns in the end, every initial load
\* reaches loading = false and every generation run reaches
\* generatingPrices = false, whether it succeeded or failed
C28_EventuallyIdle ==
  /\ loading ~> ~loading
  /\ generatingPrices ~> ~generatingPrices
  /\ \A n \in 1..(MaxClicks + 1) :
       (Len(generations) >= n /\ generations[n].status = "running")
         ~> (/\ Len(generations) >= n
             /\ generations[n].status # "running"
             /\ ~generatingPrices)

\* the load has failed, a run of the AI-call variant has thrown, and both
\* flags are down
C28_Witness ==
  /\ ~loading
  /\ ~generatingPrices
  /\ \E g \in 1..Len(generations) : generations[g].status = "threw"


\* C29: in the current variant the weekend and holiday flags a suggestion
\* was priced with are those of the calendar date in its date field, at
\* every time-zone offset and time of day
C29_FlagsOfWrittenDate ==
  variant = "current" =>
    \A p \in 1..Len(iterations) : \A i \in 1..HorizonDays :
      LET it == iterations[p][i] IN
      it.pushed =>
        /\ it.isWeekend = IsWeekendDay(it.date)
        /\ it.isHoliday = isHoliday(it.date)


(***************************************************************************)
(* PhotoGallery (src/unnamed/part_000): uploads, deletes and set-primary   *)
(* on the photos of one property. A row of property_photos is its id and   *)
(* its is_primary flag; the table has no constraint on is_primary.         *)
(***************************************************************************)

\* rows of property_photos ever inserted for the property
MaxPhotos == 3
\* clicks on Upload Photos, a star button or a delete button
MaxGalleryClicks == 3

\* the ids of the rows whose is_primary is true
PrimaryIds(rows) == {id \in DOMAIN rows : rows[id]}

\* seq without its k-th element
RemoveAt(seq, k) == SubSeq(seq, 1, k - 1) \o SubSeq(seq, k + 1, Len(seq))

\* rows without the row of id
WithoutRow(rows, id) == [j \in DOMAIN rows \ {id} |-> rows[j]]

\* the mount effect's fetchPhotos, or one called by a handler, gets its rows
FetchPhotosOk ==
  /\ selects > 0
  /\ selects' = selects - 1
  /\ photos' = photoRows
  /\ galleryLoading' = FALSE
  /\ UNCHANGED <<now, tz, properties, budget, result, engineVars, pureVars,
                 pageVars, photoRows, uploading, galleryCalls, nextPhoto,
                 galleryToast>>

\* the select of fetchPhotos returns an error
FetchPhotosError ==
  /\ selects > 0
  /\ selects' = selects - 1
  /\ galleryToast' = "Error"
  /\ galleryLoading' = FALSE
  /\ UNCHANGED <<now, tz, properties, budget, result, engineVars, pureVars,
                 pageVars, photoRows, photos, uploading, galleryCalls,
                 nextPhoto>>

\* a click on Upload Photos with n files selected: handleFileUpload up to
\* its first await. photos is the state of the render the handler belongs
\* to; the button is disabled while uploading is set.
ClickUpload ==
  /\ budget > 0
  /\ ~galleryLoading
  /\ ~uploading
  /\ \E n \in 1..(MaxPhotos + 1 - nextPhoto) :
       galleryCalls' = Append(galleryCalls,
         [op |-> "upload", id |-> 0, pc |-> "file", i |-> 0, n |-> n,
          len |-> Cardinality(DOMAIN photos)])
  /\ budget' = budget - 1
  /\ uploading' = TRUE
  /\ UNCHANGED <<now, tz, properties, result, engineVars, pureVars, pageVars,
                 photoRows, photos, galleryLoading, selects, nextPhoto,
                 galleryToast>>

\* the storage upload and the insert of file i of an upload both succeed
UploadFileOk ==
  \E k \in 1..Len(galleryCalls) :
    /\ galleryCalls[k].op = "upload"
    /\ \E c \in {galleryCalls[k]} :
         /\ photoRows' = photoRows @@ (nextPhoto :> (c.len = 0 /\ c.i = 0))
         /\ nextPhoto' = nextPhoto + 1
         /\ IF c.i + 1 < c.n
            THEN /\ galleryCalls' = [galleryCalls EXCEPT ![k].i = c.i + 1]
                 /\ UNCHANGED <<uploading, selects, galleryToast>>
            ELSE /\ galleryCalls' = RemoveAt(galleryCalls, k)
                 /\ galleryToast' = "Success"
                 /\ selects' = selects + 1
                 /\ uploading' = FALSE
    /\ UNCHANGED <<now, tz, properties, budget, result, engineVars, pureVars,
                   pageVars, photos, galleryLoading>>

\* the storage upload or the insert of a file fails: the loop is left
UploadFileError ==
  \E k \in 1..Len(galleryCalls) :
    /\ galleryCalls[k].op = "upload"
    /\ galleryCalls' = RemoveAt(galleryCalls, k)
    /\ galleryToast' = "Error"
    /\ uploading' = FALSE
    /\ UNCHANGED <<now, tz, properties, budget, result, engineVars, pureVars,
                   pageVars, photoRows, photos, galleryLoading, selects,
                   nextPhoto>>

\* a confirmed click on the delete button of a photo shown
ClickDelete ==
  /\ budget > 0
  /\ ~galleryLoading
  /\ \E id \in DOMAIN photos :
       galleryCalls' = Append(galleryCalls,
         [op |-> "delete", id |-> id, pc |-> "remove", i |-> 0, n |-> 0,
          len |-> 0])
  /\ budget' = budget - 1
  /\ UNCHANGED <<now, tz, properties, result, engineVars, pureVars, pageVars,
                 photoRows, photos, galleryLoading, uploading, selects,
                 nextPhoto, galleryToast>>

\* the storage remove and the delete of handleDeletePhoto both succeed
DeleteOk ==
  \E k \in 1..Len(galleryCalls) :
    /\ galleryCalls[k].op = "delete"
    /\ photoRows' = WithoutRow(photoRows, galleryCalls[k].id)
    /\ galleryCalls' = RemoveAt(galleryCalls, k)
    /\ galleryToast' = "Success"
    /\ selects' = selects + 1
    /\ UNCHANGED <<now, tz, properties, budget, result, engineVars, pureVars,
                   pageVars, photos, galleryLoading, uploading, nextPhoto>>

\* the storage remove or the delete returns an error
DeleteError ==
  \E k \in 1..Len(galleryCalls) :
    /\ galleryCalls[k].op = "delete"
    /\ galleryCalls' = RemoveAt(galleryCalls, k)
    /\ galleryToast' = "Error"
    /\ UNCHANGED <<now, tz, properties, budget, result, engineVars, pureVars,
                   pageVars, photoRows, photos, galleryLoading, uploading,
                   selects, nextPhoto>>

\* a click on the star button, shown on the photos that are not primary in
\* the photos state: handleSetPrimary up to its first await
ClickSetPrimary ==
  /\ budget > 0
  /\ ~galleryLoading
  /\ \E id \in DOMAIN photos :
       /\ ~photos[id]
       /\ galleryCalls' = Append(galleryCalls,
            [op |-> "setPrimary", id |-> id, pc |-> "clear", i |-> 0,
             n |-> 0, len |-> 0])
  /\ budget' = budget - 1
  /\ UNCHANGED <<now, tz, properties, result, engineVars, pureVars, pageVars,
                 photoRows, photos, galleryLoading, uploading, selects,
                 nextPhoto, galleryToast>>

\* the first update of handleSetPrimary returns: is_primary false on every
\* row of the property when it succeeded; its error is not looked at
ClearPrimary(k, ok) ==
  /\ galleryCalls[k].op = "setPrimary"
  /\ galleryCalls[k].pc = "clear"
  /\ photoRows' = IF ok THEN [id \in DOMAIN photoRows |-> FALSE] ELSE photoRows
  /\ galleryCalls' = [galleryCalls EXCEPT ![k].pc = "set"]

ClearPrimaryReturns ==
  \E k \in 1..Len(galleryCalls), ok \in BOOLEAN :
    /\ ClearPrimary(k, ok)
    /\ UNCHANGED <<now, tz, properties, budget, result, engineVars, pureVars,
                   pageVars, photos, galleryLoading, uploading, selects,
                   nextPhoto, galleryToast>>

\* the second update of call k succeeds: is_primary true on the row of the
\* selected id, if there is one
SetPrimaryOkOf(k) ==
  /\ galleryCalls[k].op = "setPrimary"
  /\ galleryCalls[k].pc = "set"
  /\ photoRows' = [id \in DOMAIN photoRows |->
                     id = galleryCalls[k].id \/ photoRows[id]]
  /\ galleryCalls' = RemoveAt(galleryCalls, k)
  /\ galleryToast' = "Success"
  /\ selects' = selects + 1
  /\ UNCHANGED <<now, tz, properties, budget, result, engineVars, pureVars,
                 pageVars, photos, galleryLoading, uploading, nextPhoto>>

SetPrimaryOk == \E k \in 1..Len(galleryCalls) : SetPrimaryOkOf(k)

\* the second update returns an error
SetPrimaryError ==
  \E k \in 1..Len(galleryCalls) :
    /\ galleryCalls[k].op = "setPrimary"
    /\ galleryCalls[k].pc = "set"
    /\ galleryCalls' = RemoveAt(galleryCalls, k)
    /\ galleryToast' = "Error"
    /\ UNCHANGED <<now, tz, properties, budget, result, engineVars, pureVars,
                   pageVars, photoRows, photos, galleryLoading, uploading,
                   selects, nextPhoto>>

\* PhotoGallery mounted on a property without photos
InitGallery ==
  /\ now = TicksPerDay * PageDay
  /\ tz = 0
  /\ properties = <<>>
  /\ budget = MaxGalleryClicks
  /\ ticksLeft = 0
  /\ InitCommon
  /\ PureIdle
  /\ PageIdle
  /\ photoRows = <<>>
  /\ photos = <<>>
  /\ galleryLoading = TRUE
  /\ uploading = FALSE
  /\ galleryCalls = <<>>
  /\ selects = 1
  /\ nextPhoto = 1
  /\ galleryToast = "none"

NextGallery ==
  \/ FetchPhotosOk
  \/ FetchPhotosError
  \/ ClickUpload
  \/ UploadFileOk
  \/ UploadFileError
  \/ ClickDelete
  \/ DeleteOk
  \/ DeleteError
  \/ ClickSetPrimary
  \/ ClearPrimaryReturns
  \/ SetPrimaryOk
  \/ SetPrimaryError

SpecGallery == InitGallery /\ [][NextGallery]_vars

\* C30: at most one photo of the property has is_primary = true, and a
\* handleSetPrimary that succeeds leaves exactly the selected photo primary
C30_OnePrimary ==
  [][/\ Cardinality(PrimaryIds(photoRows')) <= 1
     /\ \A k \in 1..Len(galleryCalls) :
          SetPrimaryOkOf(k) => PrimaryIds(photoRows') = {galleryCalls[k].id}]_vars

=============================================================================
